---- MODULE Spec2Model ----
(***************************************************************************)
(* HTTP/3 request/response correlation of src/Http3/client.py (HttpClient, *)
(* the initiator) and src/Http3/server.py (HttpServerProtocol, the         *)
(* responder).  The transport (aioquic) is the environment: it hands each  *)
(* connection batches of HeadersReceived / DataReceived events and accepts *)
(* send_headers / send_data / transmit calls, each of which may raise.     *)
(***************************************************************************)
EXTENDS Integers, Sequences, FiniteSets, TLC

\* ------------------------------------------------------------------ bounds
\* get() calls issued on the initiator connection
MaxRequests == 2
\* HeadersReceived/DataReceived events one transport event yields
MaxBatch == 2
\* events processed by the initiator over a run
MaxEvents == 3
\* events processed by the responder over a run
MaxServerEvents == 2
MaxPairRequests == 1
MaxPairEvents == 2

\* ------------------------------------------------------------ Python values
\* Optional values: None, or a one-element tuple holding the value.
None == <<>>
Some(x) == <<x>>

\* bytes payloads are sequences of byte tokens
EmptyBytes == <<>>

Max(S) == CHOOSE x \in S : \A y \in S : y <= x

\* dict(pairs): a list of (name, value) pairs becomes a mapping; for a name that
\* occurs more than once the last pair wins.
dict(pairs) ==
    LET names == {pairs[i][1] : i \in DOMAIN pairs}
    IN  [n \in names |-> pairs[Max({i \in DOMAIN pairs : pairs[i][1] = n})][2]]

\* d[key] = value on a mapping: insert or overwrite.
SetItem(d, key, value) ==
    [k \in DOMAIN d \cup {key} |-> IF k = key THEN value ELSE d[k]]

\* -------------------------------------------------------------- the events
HeadersReceived(sid, hdrs, ended) ==
    [type |-> "HeadersReceived", stream_id |-> sid, headers |-> hdrs, stream_ended |-> ended]

DataReceived(sid, bytes, ended) ==
    [type |-> "DataReceived", stream_id |-> sid, data |-> bytes, stream_ended |-> ended]

\* Stream ids get() can be given by the transport, in allocation order, and one
\* id that no get() is ever given (a stream the peer opened).
ClientIds == 0 .. (MaxRequests - 1)
PeerId == MaxRequests

\* Header lists the peer sends: a response's and a trailer section's.
ResponseHeaders ==
    { << <<":status", "200">>, <<"content-type", "application/json">> >>,
      << <<"x-trailer", "1">> >> }

Fragments == { <<"a">>, <<"b">> }

\* Events the transport can deliver for the stream ids in `ids`.
HttpEvents(ids) ==
    {HeadersReceived(s, h, e) : s \in ids, h \in ResponseHeaders, e \in BOOLEAN}
    \cup {DataReceived(s, d, e) : s \in ids, d \in Fragments, e \in BOOLEAN}

Min(a, b) == IF a < b THEN a ELSE b

\* The batches of at most `room` events one transport event can yield.
Batches(ids, room) ==
    UNION {[1 .. n -> HttpEvents(ids)] : n \in 1 .. Min(MaxBatch, room)}

\* The path requested.
RequestPaths == {"/api/status"}

\* ---------------------------------------------------------------- futures
\* An asyncio future: PENDING, FINISHED (holding a result) or CANCELLED.
\* The result of a waiter is the very dict object stored in _request_events
\* under its stream id (set_result is given the object, not a copy), so it is
\* kept as a reference: the key of that entry.
create_future == [state |-> "PENDING", result |-> None]

done(fut) == fut.state # "PENDING"

\* ------------------------------------------------------------- HttpClient
\* The initiator connection: HttpClient's fields, the transport's next stream
\* id and the calls made on the transport; exc is the exception that left the
\* method last run ("none" when it returned).
ClientInit ==
    [ request_events |-> <<>>,
      request_waiter |-> <<>>,
      next_stream_id |-> 0,
      wire           |-> <<>>,
      exc            |-> "none" ]

NewEntry == [headers |-> None, data |-> EmptyBytes]

RequestHeaders(path) ==
    << <<":method", "GET">>, <<":scheme", "https">>,
       <<":authority", "localhost:4433">>, <<":path", path>>,
       <<"user-agent", "Python-HTTP3-Client">> >>

\* Mutant: the waiter and the entry are registered only after the await, so
\* get() reaches its first yield with the request sent and nothing registered.
get_RegisterAfterYield(c, path) ==
    LET stream_id == c.next_stream_id
    IN  [ c EXCEPT
            !.next_stream_id = stream_id + 1,
            !.wire = c.wire
                     \o << [op |-> "send_headers", stream_id |-> stream_id,
                            headers |-> RequestHeaders(path), end_stream |-> TRUE],
                           [op |-> "transmit"] >>,
            !.exc = "none" ]

\* get(path) up to its await: the stream id, send_headers with end_stream set,
\* the waiter and the empty entry, transmit.
get(c, path) ==
    LET stream_id == c.next_stream_id
    IN  [ c EXCEPT
            !.next_stream_id = stream_id + 1,
            !.wire = c.wire
                     \o << [op |-> "send_headers", stream_id |-> stream_id,
                            headers |-> RequestHeaders(path), end_stream |-> TRUE],
                           [op |-> "transmit"] >>,
            !.request_events = SetItem(c.request_events, stream_id, NewEntry),
            !.request_waiter = SetItem(c.request_waiter, stream_id, create_future),
            !.exc = "none" ]

\* Mutant: the oldest pending waiter is resolved, whatever stream ended.
set_result_OldestPending(c, stream_id) ==
    LET pending == {t \in DOMAIN c.request_waiter : ~done(c.request_waiter[t])}
        t == CHOOSE x \in pending : \A y \in pending : x <= y
    IN  [c EXCEPT !.request_waiter[t] = [state |-> "FINISHED", result |-> Some(t)]]

\* future.set_result(value): InvalidStateError on a future that is done.
set_result(c, stream_id) ==
    IF done(c.request_waiter[stream_id])
    THEN [c EXCEPT !.exc = "InvalidStateError"]
    ELSE [c EXCEPT !.request_waiter[stream_id] =
                       [state |-> "FINISHED", result |-> Some(stream_id)]]

\* The entry of a stream, created on its first event.
EnsureEntry(c, stream_id) ==
    IF stream_id \notin DOMAIN c.request_events
    THEN [c EXCEPT !.request_events = SetItem(c.request_events, stream_id, NewEntry)]
    ELSE c

\* Mutant: the waiter is looked up without the membership test.
MaybeResolve_NoInTest(c, stream_id) ==
    IF stream_id \notin DOMAIN c.request_waiter
    THEN [c EXCEPT !.exc = "KeyError"]
    ELSE IF ~done(c.request_waiter[stream_id])
    THEN set_result(c, stream_id)
    ELSE c

\* The end-of-stream branch of a DataReceived event.
MaybeResolve(c, stream_id) ==
    IF stream_id \in DOMAIN c.request_waiter /\ ~done(c.request_waiter[stream_id])
    THEN set_result(c, stream_id)
    ELSE c

\* Mutant: a fragment is put in front of the body instead of behind it.
OnHttpEvent_Prepend(c, ev) ==
    IF ev.type = "HeadersReceived"
    THEN LET c1 == EnsureEntry(c, ev.stream_id)
         IN  [c1 EXCEPT !.request_events[ev.stream_id].headers = Some(dict(ev.headers))]
    ELSE LET c1 == EnsureEntry(c, ev.stream_id)
             c2 == [c1 EXCEPT !.request_events[ev.stream_id].data = ev.data \o @]
         IN  IF ev.stream_ended THEN MaybeResolve(c2, ev.stream_id) ELSE c2

\* The body of quic_event_received's loop, for one event.
OnHttpEvent(c, ev) ==
    IF ev.type = "HeadersReceived"
    THEN LET c1 == EnsureEntry(c, ev.stream_id)
         IN  [c1 EXCEPT !.request_events[ev.stream_id].headers = Some(dict(ev.headers))]
    ELSE LET c1 == EnsureEntry(c, ev.stream_id)
             c2 == [c1 EXCEPT !.request_events[ev.stream_id].data = @ \o ev.data]
         IN  IF ev.stream_ended THEN MaybeResolve(c2, ev.stream_id) ELSE c2

RECURSIVE RunBatch(_, _)
RunBatch(c, batch) ==
    IF batch = <<>> \/ c.exc # "none"
    THEN c
    ELSE RunBatch(OnHttpEvent(c, Head(batch)), Tail(batch))

\* quic_event_received(event): the events the transport makes of it, in order;
\* an exception ends the loop and leaves the method.
quic_event_received(c, batch) == RunBatch([c EXCEPT !.exc = "none"], batch)

\* wait_for's timeout: the waiter is cancelled (only a pending future can be).
cancel(c, stream_id) ==
    [c EXCEPT !.request_waiter[stream_id] = [state |-> "CANCELLED", result |-> None]]

\* What the caller of get() holds once it resumes: the dict behind the
\* waiter's result, read as test_endpoint reads it.
Response(c, stream_id) ==
    LET entry == c.request_events[c.request_waiter[stream_id].result[1]]
    IN  [outcome |-> "result", headers |-> entry.headers, data |-> entry.data]

\* ------------------------------------------------------ Python str / bytes
\* A str is a sequence of pieces: [ascii |-> text], a run of ASCII characters
\* (as long as it can be: two runs never follow each other and no run is
\* empty), or [cp |-> n], one character by its code point, for a character
\* outside ASCII or one a string here cannot hold.  bytes are pieces too:
\* ASCII runs, [utf8 |-> n], the UTF-8 encoding of code point n, and
\* [raw |-> b], the one byte b >= 128.  A str of the program holds no lone
\* surrogate: its strs come from decode and from json.dumps.
Str(text) == <<[ascii |-> text]>>

RECURSIVE Sum(_)
Sum(ns) == IF ns = <<>> THEN 0 ELSE Head(ns) + Sum(Tail(ns))

Utf8Len(n) == IF n < 128 THEN 1 ELSE IF n < 2048 THEN 2 ELSE IF n < 65536 THEN 3 ELSE 4

IsAscii(piece) == DOMAIN piece = {"ascii"}
IsRaw(piece) == DOMAIN piece = {"raw"}

\* len(s) of a str: its characters.
len(s) == Sum([i \in DOMAIN s |-> IF IsAscii(s[i]) THEN Len(s[i].ascii) ELSE 1])

\* len(b) of bytes.
ByteLen(b) ==
    Sum([i \in DOMAIN b |->
            IF IsAscii(b[i]) THEN Len(b[i].ascii)
            ELSE IF IsRaw(b[i]) THEN 1 ELSE Utf8Len(b[i].utf8)])

\* s.encode(): UTF-8.
encode(s) == [i \in DOMAIN s |-> IF IsAscii(s[i]) THEN s[i] ELSE [utf8 |-> s[i].cp]]

\* The UTF-8 decoder at a byte >= 128 given by its value: the length of the
\* sequence a lead byte opens (0: no lead byte), and the values its j-th
\* continuation byte may have.
Utf8SeqLen(lead) ==
    IF lead \in 194 .. 223 THEN 2
    ELSE IF lead \in 224 .. 239 THEN 3
    ELSE IF lead \in 240 .. 244 THEN 4
    ELSE 0

Utf8Continuation(lead, j) ==
    IF j > 1 THEN 128 .. 191
    ELSE IF lead = 224 THEN 160 .. 191
    ELSE IF lead = 237 THEN 128 .. 159
    ELSE IF lead = 240 THEN 144 .. 191
    ELSE IF lead = 244 THEN 128 .. 143
    ELSE 128 .. 191

\* The continuation bytes that follow the lead byte at piece i, as far as
\* they are valid, at most n - 1 of them.
RECURSIVE Utf8Taken(_, _, _, _)
Utf8Taken(b, i, j, n) ==
    IF j < n /\ i + j <= Len(b) /\ IsRaw(b[i + j])
       /\ b[i + j].raw \in Utf8Continuation(b[i].raw, j)
    THEN Utf8Taken(b, i, j + 1, n)
    ELSE j - 1

Utf8CodePoint(b, i, n) ==
    IF n = 2 THEN (b[i].raw - 192) * 64 + (b[i + 1].raw - 128)
    ELSE IF n = 3
    THEN (b[i].raw - 224) * 4096 + (b[i + 1].raw - 128) * 64 + (b[i + 2].raw - 128)
    ELSE (b[i].raw - 240) * 262144 + (b[i + 1].raw - 128) * 4096
         + (b[i + 2].raw - 128) * 64 + (b[i + 3].raw - 128)

\* Decoding from piece i on: the str, or the UnicodeDecodeError with the
\* first byte it names, the positions it covers and its reason.
RECURSIVE DecodeFrom(_, _)
DecodeFrom(b, i) ==
    IF i > Len(b) THEN [ok |-> TRUE, str |-> <<>>]
    ELSE IF ~IsRaw(b[i])
    THEN LET rest == DecodeFrom(b, i + 1)
         IN  IF rest.ok
             THEN [ok |-> TRUE,
                   str |-> <<IF IsAscii(b[i]) THEN b[i] ELSE [cp |-> b[i].utf8]>>
                           \o rest.str]
             ELSE rest
    ELSE LET n     == Utf8SeqLen(b[i].raw)
             taken == IF n = 0 THEN 0 ELSE Utf8Taken(b, i, 1, n)
             start == ByteLen(SubSeq(b, 1, i - 1))
         IN  IF n = 0
             THEN [ok |-> FALSE, byte |-> b[i].raw, start |-> start, end |-> start,
                   reason |-> "invalid start byte"]
             ELSE IF taken = n - 1
             THEN LET rest == DecodeFrom(b, i + n)
                  IN  IF rest.ok
                      THEN [ok |-> TRUE,
                            str |-> <<[cp |-> Utf8CodePoint(b, i, n)]>> \o rest.str]
                      ELSE rest
             ELSE [ok |-> FALSE, byte |-> b[i].raw, start |-> start,
                   end |-> start + taken,
                   reason |-> IF i + taken = Len(b) THEN "unexpected end of data"
                              ELSE "invalid continuation byte"]

\* b.decode('utf-8'): None stands for UnicodeDecodeError.
decode(b) == IF DecodeFrom(b, 1).ok THEN Some(DecodeFrom(b, 1).str) ELSE None

HexDigits == "0123456789abcdef"
HexDigit(d) == SubSeq(HexDigits, d + 1, d + 1)

\* str(e) of the UnicodeDecodeError of b.decode('utf-8').
UnicodeDecodeErrorStr(b) ==
    LET e == DecodeFrom(b, 1)
    IN  Str("'utf-8' codec can't decode "
            \o (IF e.start = e.end
                THEN "byte 0x" \o HexDigit(e.byte \div 16) \o HexDigit(e.byte % 16)
                     \o " in position " \o ToString(e.start)
                ELSE "bytes in position " \o ToString(e.start) \o "-" \o ToString(e.end))
            \o ": " \o e.reason)

\* str(n) of an integer.
str(n) == Str(ToString(n))

\* n zeros.
RECURSIVE Zeros(_)
Zeros(n) == IF n <= 0 THEN "" ELSE "0" \o Zeros(n - 1)

\* The digits of n, with zeros in front up to a width.
ZeroPad(n, width) == Zeros(width - Len(ToString(n))) \o ToString(n)

\* ------------------------------------------------------------ Python float
\* A natural number of any size is the sequence of its digits in base 1000,
\* the lowest first and the highest not 0; <<>> is 0.
BigAt(a, i) == IF i \in DOMAIN a THEN a[i] ELSE 0

\* The index of the highest of the digits lo .. hi that is not 0, 0 if none.
RECURSIVE BigTop(_, _, _)
BigTop(a, lo, hi) ==
    IF lo > hi THEN 0
    ELSE IF lo = hi THEN (IF a[lo] # 0 THEN lo ELSE 0)
    ELSE LET mid == (lo + hi) \div 2
             up  == BigTop(a, mid + 1, hi)
         IN  IF up # 0 THEN up ELSE BigTop(a, lo, mid)

BigNorm(a) == SubSeq(a, 1, BigTop(a, 1, Len(a)))

RECURSIVE BigOfInt(_)
BigOfInt(n) == IF n = 0 THEN <<>> ELSE <<n % 1000>> \o BigOfInt(n \div 1000)

\* The digits lo .. hi of the number whose columns are s (a column may hold
\* any integer), with the carry that comes in, and the carry that goes out.
RECURSIVE BigCarry(_, _, _, _)
BigCarry(s, lo, hi, cin) ==
    IF lo > hi THEN [limbs |-> <<>>, out |-> cin]
    ELSE IF lo = hi
    THEN [limbs |-> <<(s[lo] + cin) % 1000>>, out |-> (s[lo] + cin) \div 1000]
    ELSE LET mid == (lo + hi) \div 2
             l   == BigCarry(s, lo, mid, cin)
             r   == BigCarry(s, mid + 1, hi, l.out)
         IN  [limbs |-> l.limbs \o r.limbs, out |-> r.out]

BigOfColumns(s) ==
    LET r == BigCarry(s, 1, Len(s), 0)
    IN  BigNorm(r.limbs \o BigOfInt(r.out))

BigAdd(a, b) ==
    BigOfColumns([i \in 1 .. (IF Len(a) > Len(b) THEN Len(a) ELSE Len(b)) |->
                     BigAt(a, i) + BigAt(b, i)])

\* a - b where a >= b.
BigSub(a, b) == BigOfColumns([i \in 1 .. Len(a) |-> a[i] - BigAt(b, i)])

\* a * k for a small k.
BigMulSmall(a, k) == BigOfColumns([i \in 1 .. Len(a) |-> a[i] * k])

\* a \div 2.
BigHalf(a) ==
    BigNorm([i \in 1 .. Len(a) |-> (a[i] + (BigAt(a, i + 1) % 2) * 1000) \div 2])

\* The sum of a[i] * b[k + 1 - i] for i in lo .. hi.
RECURSIVE BigColumn(_, _, _, _, _)
BigColumn(a, b, k, lo, hi) ==
    IF lo > hi THEN 0
    ELSE IF lo = hi THEN a[lo] * b[k + 1 - lo]
    ELSE BigColumn(a, b, k, lo, (lo + hi) \div 2)
         + BigColumn(a, b, k, (lo + hi) \div 2 + 1, hi)

BigMul(a, b) ==
    IF a = <<>> \/ b = <<>> THEN <<>>
    ELSE BigOfColumns([k \in 1 .. (Len(a) + Len(b) - 1) |->
                          BigColumn(a, b, k,
                                    IF k + 1 - Len(b) > 1 THEN k + 1 - Len(b) ELSE 1,
                                    IF k < Len(a) THEN k ELSE Len(a))])

\* -1, 0, 1: a below, equal to, above b.
RECURSIVE BigCmpRange(_, _, _, _)
BigCmpRange(a, b, lo, hi) ==
    IF lo > hi THEN 0
    ELSE IF lo = hi THEN (IF a[lo] < b[lo] THEN -1 ELSE IF a[lo] > b[lo] THEN 1 ELSE 0)
    ELSE LET mid == (lo + hi) \div 2
             up  == BigCmpRange(a, b, mid + 1, hi)
         IN  IF up # 0 THEN up ELSE BigCmpRange(a, b, lo, mid)

BigCmp(a, b) ==
    IF Len(a) < Len(b) THEN -1
    ELSE IF Len(a) > Len(b) THEN 1
    ELSE BigCmpRange(a, b, 1, Len(a))

\* b ^ n for a small b.
RECURSIVE BigPow(_, _)
BigPow(b, n) ==
    IF n = 0 THEN <<1>>
    ELSE LET h  == BigPow(b, n \div 2)
             sq == BigMul(h, h)
         IN  IF n % 2 = 1 THEN BigMulSmall(sq, b) ELSE sq

Ten(j) == IF j = 0 THEN 1 ELSE IF j = 1 THEN 10 ELSE 100

\* 10 ^ n.
BigPow10(n) == [i \in 1 .. (n \div 3 + 1) |-> IF i = n \div 3 + 1 THEN Ten(n % 3) ELSE 0]

\* The decimal digits of a number, the highest first, and the number of a
\* sequence of decimal digits.
BigToDigits(a) ==
    IF a = <<>> THEN <<>>
    ELSE LET n    == 3 * Len(a)
             all  == [j \in 1 .. n |-> (a[(n - j) \div 3 + 1] \div Ten((n - j) % 3)) % 10]
             lead == IF all[1] # 0 THEN 0 ELSE IF all[2] # 0 THEN 1 ELSE 2
         IN  SubSeq(all, lead + 1, n)

BigFromDigits(ds) ==
    LET n      == Len(ds)
        at(p)  == IF p < n THEN ds[n - p] ELSE 0
    IN  BigNorm([i \in 1 .. ((n + 2) \div 3) |->
                    at(3 * i - 3) + at(3 * i - 2) * 10 + at(3 * i - 1) * 100])

\* A float is a double: zero, infinite, or m * 2^q with the 53-bit m
\* (2^52 <= m < 2^53, or below 2^52 when q = -1074), and its sign.
FloatZero(neg) == [kind |-> "zero", neg |-> neg]
FloatInf(neg) == [kind |-> "inf", neg |-> neg]

\* The number of the bits lo .. hi of a sequence of bits, the highest first.
RECURSIVE BigOfBits(_, _, _)
BigOfBits(bits, lo, hi) ==
    IF lo > hi THEN <<>>
    ELSE IF lo = hi THEN BigOfInt(bits[lo])
    ELSE LET mid == (lo + hi) \div 2
         IN  BigAdd(BigMul(BigOfBits(bits, lo, mid), BigPow(2, hi - mid)),
                    BigOfBits(bits, mid + 1, hi))

\* Long division in base 2: the n bits of the quotient of r by d / 2^(n-1),
\* the highest first, the remainder, and d halved n times.
RECURSIVE BigDivBits(_, _, _)
BigDivBits(r, d, n) ==
    IF n = 1
    THEN (IF BigCmp(d, r) <= 0
          THEN [bits |-> <<1>>, r |-> BigSub(r, d), d |-> BigHalf(d)]
          ELSE [bits |-> <<0>>, r |-> r, d |-> BigHalf(d)])
    ELSE LET h == BigDivBits(r, d, n \div 2)
             l == BigDivBits(h.r, h.d, n - n \div 2)
         IN  [bits |-> h.bits \o l.bits, r |-> l.r, d |-> l.d]

\* float(text) of a decimal number, given by its sign, its digits ds and the
\* power of ten e10 the digits are to be multiplied with: the double nearest
\* to it, the one with the even m of two that are as near.
float(neg, ds, e10) ==
    LET D == BigFromDigits(ds)
        p == Len(BigToDigits(D)) - 1 + e10
    IN  IF D = <<>> \/ p < -324 THEN FloatZero(neg)
        ELSE IF p > 308 THEN FloatInf(neg)
        ELSE LET N     == IF e10 > 0 THEN BigMul(D, BigPow10(e10)) ELSE D
                 M     == IF e10 < 0 THEN BigPow10(0 - e10) ELSE <<1>>
                 kmin  == (p * 3321928) \div 1000000 - 1
                 Le(k) == IF k >= 0 THEN BigCmp(BigMul(M, BigPow(2, k)), N) <= 0
                          ELSE BigCmp(M, BigMul(N, BigPow(2, 0 - k))) <= 0
                 k     == Max({j \in kmin .. (kmin + 6) : Le(j)})
                 q     == IF k - 52 < -1074 THEN -1074 ELSE k - 52
                 N2    == IF q < 0 THEN BigMul(N, BigPow(2, 0 - q)) ELSE N
                 M2    == IF q > 0 THEN BigMul(M, BigPow(2, q)) ELSE M
                 d     == BigDivBits(N2, BigMul(M2, BigPow(2, 52)), 53)
                 half  == BigCmp(BigMulSmall(d.r, 2), M2)
                 m0    == BigOfBits(d.bits, 1, 53)
                 m1    == IF half > 0 \/ (half = 0 /\ d.bits[53] = 1)
                          THEN BigAdd(m0, <<1>>) ELSE m0
                 over  == m1 = BigPow(2, 53)
             IN  IF k > 1023 \/ (over /\ q = 971) THEN FloatInf(neg)
                 ELSE IF m1 = <<>> THEN FloatZero(neg)
                 ELSE [kind |-> "finite", neg |-> neg,
                       m |-> IF over THEN BigPow(2, 52) ELSE m1,
                       q |-> IF over THEN q + 1 ELSE q]

\* The digits of repr(x) of a finite float that is not 0, and the place of
\* the decimal point in front of them (x = 0.digits * 10^decpt): the fewest
\* digits that give x back when they are read, and of those the nearest to x.
\* The doubles around x are half a step away, the one below a power of two
\* a quarter; all is counted in units of 2^(q-2), times 5^(2-q) when q < 2.
FloatDigits(x) ==
    LET close  == x.m = BigPow(2, 52) /\ x.q > -1074
        scale  == IF x.q >= 2 THEN BigPow(2, x.q - 2) ELSE BigPow(5, 2 - x.q)
        E      == IF x.q >= 2 THEN 0 ELSE x.q - 2
        v4     == BigMulSmall(x.m, 4)
        xv     == BigMul(v4, scale)
        xl     == BigMul(BigSub(v4, IF close THEN <<1>> ELSE <<2>>), scale)
        xh     == BigMul(BigAdd(v4, <<2>>), scale)
        dv     == BigToDigits(xv)
        nv     == Len(dv)
        In(c)  == IF x.m[1] % 2 = 0
                  THEN BigCmp(xl, c) <= 0 /\ BigCmp(c, xh) <= 0
                  ELSE BigCmp(xl, c) < 0 /\ BigCmp(c, xh) < 0
        Down(n) == BigFromDigits([j \in 1 .. nv |-> IF j <= n THEN dv[j] ELSE 0])
        Up(n)  == BigAdd(Down(n), BigPow10(nv - n))
        oks    == {n \in 1 .. 17 : n >= nv \/ In(Down(n)) \/ In(Up(n))}
        n      == CHOOSE k \in oks : \A j \in oks : k <= j
        below  == BigSub(xv, Down(n))
        above  == BigSub(Up(n), xv)
        c      == IF n >= nv THEN xv
                  ELSE IF ~In(Up(n)) THEN Down(n)
                  ELSE IF ~In(Down(n)) THEN Up(n)
                  ELSE IF BigCmp(below, above) < 0 THEN Down(n)
                  ELSE IF BigCmp(below, above) > 0 THEN Up(n)
                  ELSE IF dv[n] % 2 = 0 THEN Down(n) ELSE Up(n)
        dc     == BigToDigits(c)
        last   == Max({j \in 1 .. Min(Len(dc), 18) : dc[j] # 0})
    IN  [digits |-> SubSeq(dc, 1, last), decpt |-> Len(dc) + E]

RECURSIVE DigitsText(_)
DigitsText(ds) ==
    IF ds = <<>> THEN ""
    ELSE SubSeq("0123456789", Head(ds) + 1, Head(ds) + 1) \o DigitsText(Tail(ds))

\* The text json.dumps writes for a float: float.__repr__, with its own
\* words for the infinite ones.  repr writes the digits with a decimal
\* point when the point is at most 16 digits to the right and less than 4
\* zeros to the left of them, and with an exponent otherwise.
floatstr(x) ==
    IF x.kind = "inf" THEN (IF x.neg THEN "-Infinity" ELSE "Infinity")
    ELSE IF x.kind = "zero" THEN (IF x.neg THEN "-0.0" ELSE "0.0")
    ELSE LET r     == FloatDigits(x)
             s     == r.digits
             decpt == r.decpt
             e     == decpt - 1
         IN  (IF x.neg THEN "-" ELSE "")
             \o (IF decpt > -4 /\ decpt <= 16
                 THEN (IF decpt <= 0 THEN "0." \o Zeros(0 - decpt) \o DigitsText(s)
                       ELSE IF decpt >= Len(s)
                       THEN DigitsText(s) \o Zeros(decpt - Len(s)) \o ".0"
                       ELSE DigitsText(SubSeq(s, 1, decpt)) \o "."
                            \o DigitsText(SubSeq(s, decpt + 1, Len(s))))
                 ELSE DigitsText(<<s[1]>>)
                      \o (IF Len(s) > 1 THEN "." \o DigitsText(Tail(s)) ELSE "")
                      \o "e" \o (IF e < 0 THEN "-" ELSE "+")
                      \o ZeroPad(IF e < 0 THEN 0 - e ELSE e, 2))

\* ------------------------------------------------------------------- json
\* The values json.dumps takes and json.loads gives: [str |-> s],
\* [int |-> n] for an integer of at most 9 digits and [bigint |-> its
\* decimal text] for a longer one, [float |-> the text json.dumps writes for
\* the double] (one text for each double; nan has one text too, though it
\* is not equal to itself in Python, and 0.0 and -0.0 have two, though they
\* are equal in Python), [bool |-> b], [null |-> TRUE], [list |-> values]
\* and [dict |-> <<key, value>> pairs in insertion order, the keys strs].
PyStr(s) == [str |-> s]
PyInt(n) == [int |-> n]
PyList(values) == [list |-> values]
PyDict(pairs) == [dict |-> pairs]

\* d[key] = value on the pairs of a dict.
DictSet(pairs, key, value) ==
    IF \E k \in DOMAIN pairs : pairs[k][1] = key
    THEN [k \in DOMAIN pairs |-> IF pairs[k][1] = key THEN <<key, value>> ELSE pairs[k]]
    ELSE Append(pairs, <<key, value>>)

\* The four hexadecimal digits of a \u escape.
Hex4(n) ==
    HexDigit(n \div 4096) \o HexDigit((n \div 256) % 16)
    \o HexDigit((n \div 16) % 16) \o HexDigit(n % 16)

\* json.dumps with ensure_ascii: what is written for one ASCII character of
\* a string, and for a character given by its code point.
JsonEscapeChar(c) ==
    IF c = "\"" THEN "\\\""
    ELSE IF c = "\\" THEN "\\\\"
    ELSE IF c = "\n" THEN "\\n"
    ELSE IF c = "\r" THEN "\\r"
    ELSE IF c = "\t" THEN "\\t"
    ELSE IF c = "\f" THEN "\\f"
    ELSE c

JsonEscapeCp(n) ==
    IF n = 8 THEN Str("\\b")
    ELSE IF n = 9 THEN Str("\\t")
    ELSE IF n = 10 THEN Str("\\n")
    ELSE IF n = 12 THEN Str("\\f")
    ELSE IF n = 13 THEN Str("\\r")
    ELSE IF n \in 32 .. 126 THEN <<[cp |-> n]>>
    ELSE IF n < 65536 THEN Str("\\u" \o Hex4(n))
    ELSE Str("\\u" \o Hex4(55296 + ((n - 65536) \div 1024))
             \o "\\u" \o Hex4(56320 + ((n - 65536) % 1024)))

RECURSIVE JsonEscapeText(_)
JsonEscapeText(text) ==
    IF text = "" THEN ""
    ELSE JsonEscapeChar(Head(text)) \o JsonEscapeText(Tail(text))

\* a + b of two strs: the runs that meet become one.
Concat(a, b) ==
    IF a # <<>> /\ b # <<>> /\ IsAscii(a[Len(a)]) /\ IsAscii(b[1])
    THEN SubSeq(a, 1, Len(a) - 1) \o <<[ascii |-> a[Len(a)].ascii \o b[1].ascii]>>
         \o Tail(b)
    ELSE a \o b

\* ''.join(parts) of strs.
RECURSIVE Join(_)
Join(parts) == IF parts = <<>> THEN <<>> ELSE Concat(Head(parts), Join(Tail(parts)))

\* The escaped text of a str, without the quotes around it.
RECURSIVE JsonEscape(_)
JsonEscape(s) ==
    IF s = <<>> THEN <<>>
    ELSE Concat(IF IsAscii(Head(s)) THEN Str(JsonEscapeText(Head(s).ascii))
                ELSE JsonEscapeCp(Head(s).cp),
                JsonEscape(Tail(s)))

RECURSIVE Spaces(_)
Spaces(n) == IF n = 0 THEN "" ELSE " " \o Spaces(n - 1)

\* The text of a value at a nesting level, with indent=2: every item and
\* member on a line of its own, "[]" and "{}" for the empty ones.
RECURSIVE JsonEncode(_, _), JsonItems(_, _), JsonMembers(_, _)
JsonEncode(v, level) ==
    IF DOMAIN v = {"str"} THEN Join(<<Str("\""), JsonEscape(v.str), Str("\"")>>)
    ELSE IF DOMAIN v = {"int"} THEN Str(ToString(v.int))
    ELSE IF DOMAIN v = {"bigint"} THEN Str(v.bigint)
    ELSE IF DOMAIN v = {"float"} THEN Str(v.float)
    ELSE IF DOMAIN v = {"bool"} THEN Str(IF v.bool THEN "true" ELSE "false")
    ELSE IF DOMAIN v = {"null"} THEN Str("null")
    ELSE IF DOMAIN v = {"list"}
    THEN (IF v.list = <<>> THEN Str("[]")
          ELSE Join(<<Str("[\n"), JsonItems(v.list, level + 1),
                      Str("\n" \o Spaces(2 * level) \o "]")>>))
    ELSE (IF v.dict = <<>> THEN Str("{}")
          ELSE Join(<<Str("{\n"), JsonMembers(v.dict, level + 1),
                      Str("\n" \o Spaces(2 * level) \o "}")>>))

JsonItems(values, level) ==
    Join(<<Str(Spaces(2 * level)), JsonEncode(Head(values), level),
           IF Len(values) = 1 THEN <<>>
           ELSE Concat(Str(",\n"), JsonItems(Tail(values), level))>>)

JsonMembers(pairs, level) ==
    Join(<<Str(Spaces(2 * level) \o "\""), JsonEscape(Head(pairs)[1]), Str("\": "),
           JsonEncode(Head(pairs)[2], level),
           IF Len(pairs) = 1 THEN <<>>
           ELSE Concat(Str(",\n"), JsonMembers(Tail(pairs), level))>>)

\* json.dumps(data, indent=2): a str of ASCII characters.
json_dumps(data) == JsonEncode(data, 0)

\* json.loads reads a str character by character: [a |-> c] is the ASCII
\* character c, [cp |-> n] as in the str.
RECURSIVE Chars(_)
Chars(s) ==
    IF s = <<>> THEN <<>>
    ELSE (IF IsAscii(Head(s))
          THEN [k \in 1 .. Len(Head(s).ascii) |-> [a |-> SubSeq(Head(s).ascii, k, k)]]
          ELSE <<Head(s)>>)
         \o Chars(Tail(s))

Is(t, i, c) == i <= Len(t) /\ t[i] = [a |-> c]
IsIn(t, i, text) ==
    i <= Len(t) /\ \E k \in 1 .. Len(text) : t[i] = [a |-> SubSeq(text, k, k)]

\* The place of a character in a text.
IndexIn(text, c) == CHOOSE k \in 1 .. Len(text) : SubSeq(text, k, k) = c

DigitValue(c) == IndexIn("0123456789", c) - 1
HexValue(c) ==
    IF \E k \in 1 .. 16 : SubSeq(HexDigits, k, k) = c
    THEN IndexIn(HexDigits, c) - 1
    ELSE IndexIn("0123456789ABCDEF", c) - 1

\* The ASCII characters from the space to the tilde that a string here can
\* hold, in their order: all but the grave accent (96).
Printable ==
    " !\"#$%&'()*+,-./0123456789:;<=>?@ABCDEFGHIJKLMNOPQRSTUVWXYZ[\\]^_abcdefghijklmnopqrstuvwxyz{|}~"

\* True when a string here can hold the character of code point n.
IsText(n) == n \in (32 .. 126) \ {96} \/ n \in {9, 10, 12, 13}

Chr(n) ==
    IF n = 9 THEN "\t" ELSE IF n = 10 THEN "\n"
    ELSE IF n = 12 THEN "\f" ELSE IF n = 13 THEN "\r"
    ELSE IF n < 96 THEN SubSeq(Printable, n - 31, n - 31)
    ELSE SubSeq(Printable, n - 32, n - 32)

\* A str under construction: one more character, by its code point or as text.
AddCp(s, n) ==
    IF ~IsText(n) THEN Append(s, [cp |-> n])
    ELSE IF s # <<>> /\ IsAscii(s[Len(s)])
    THEN [s EXCEPT ![Len(s)] = [ascii |-> @.ascii \o Chr(n)]]
    ELSE Append(s, [ascii |-> Chr(n)])

AddText(s, c) ==
    IF s # <<>> /\ IsAscii(s[Len(s)])
    THEN [s EXCEPT ![Len(s)] = [ascii |-> @.ascii \o c]]
    ELSE Append(s, [ascii |-> c])

JsonFail == [ok |-> FALSE]

\* The index of the first character from i on that is none of a text, the
\* one behind the end when there is none.
SkipIn(t, i, text) ==
    IF i > Len(t) THEN i
    ELSE CHOOSE j \in i .. (Len(t) + 1) :
             /\ ~IsIn(t, j, text)
             /\ \A k \in i .. (j - 1) : IsIn(t, k, text)

SkipWs(t, i) == SkipIn(t, i, " \t\n\r")

\* The four hexadecimal digits at i: their value, -1 when they are not there.
Hex4At(t, i) ==
    IF \A k \in 0 .. 3 : IsIn(t, i + k, "0123456789abcdefABCDEF")
    THEN HexValue(t[i].a) * 4096 + HexValue(t[i + 1].a) * 256
         + HexValue(t[i + 2].a) * 16 + HexValue(t[i + 3].a)
    ELSE -1

\* The characters i .. j of a text, all of them ASCII.
RECURSIVE TextOf(_, _, _)
TextOf(t, i, j) ==
    IF j < i THEN ""
    ELSE IF i = j THEN t[i].a
    ELSE TextOf(t, i, (i + j) \div 2) \o TextOf(t, (i + j) \div 2 + 1, j)

\* The end of the run of ASCII characters at i that stand for themselves in
\* a string: the index of the first character that is a quote, a backslash,
\* a control character or no ASCII character, or that of the end of the text.
PlainEnd(t, i) ==
    LET Stop(j) == \/ j > Len(t)
                   \/ DOMAIN t[j] = {"cp"}
                   \/ t[j].a \in {"\"", "\\", "\n", "\t", "\r", "\f"}
    IN  CHOOSE j \in i .. (Len(t) + 1) : Stop(j) /\ \A k \in i .. (j - 1) : ~Stop(k)

\* The rest of a string whose opening quote has been read, s being what has
\* been read of it: up to the closing quote, escapes read back, a surrogate
\* pair as the one character it stands for; a control character in the
\* string is an error.
RECURSIVE ParseString(_, _, _)
ParseString(t, i, s) ==
    IF i > Len(t) THEN JsonFail
    ELSE IF DOMAIN t[i] = {"cp"}
    THEN (IF t[i].cp < 32 THEN JsonFail ELSE ParseString(t, i + 1, Append(s, t[i])))
    ELSE IF PlainEnd(t, i) > i
    THEN ParseString(t, PlainEnd(t, i), AddText(s, TextOf(t, i, PlainEnd(t, i) - 1)))
    ELSE IF t[i].a = "\"" THEN [ok |-> TRUE, v |-> PyStr(s), i |-> i + 1]
    ELSE IF t[i].a # "\\" THEN JsonFail
    ELSE IF IsIn(t, i + 1, "\"\\/") THEN ParseString(t, i + 2, AddText(s, t[i + 1].a))
    ELSE IF Is(t, i + 1, "b") THEN ParseString(t, i + 2, AddCp(s, 8))
    ELSE IF Is(t, i + 1, "f") THEN ParseString(t, i + 2, AddCp(s, 12))
    ELSE IF Is(t, i + 1, "n") THEN ParseString(t, i + 2, AddCp(s, 10))
    ELSE IF Is(t, i + 1, "r") THEN ParseString(t, i + 2, AddCp(s, 13))
    ELSE IF Is(t, i + 1, "t") THEN ParseString(t, i + 2, AddCp(s, 9))
    ELSE IF Is(t, i + 1, "u") /\ Hex4At(t, i + 2) >= 0
    THEN LET hi == Hex4At(t, i + 2)
             lo == IF Is(t, i + 6, "\\") /\ Is(t, i + 7, "u") THEN Hex4At(t, i + 8) ELSE -1
         IN  IF hi \in 55296 .. 56319 /\ lo \in 56320 .. 57343
             THEN ParseString(t, i + 12,
                      AddCp(s, 65536 + (hi - 55296) * 1024 + (lo - 56320)))
             ELSE ParseString(t, i + 6, AddCp(s, hi))
    ELSE JsonFail

\* The digits from i on: the index after them.
SkipDigits(t, i) == SkipIn(t, i, "0123456789")

RECURSIVE DigitsValue(_, _, _)
DigitsValue(t, i, j) ==
    IF j < i THEN 0 ELSE DigitsValue(t, i, j - 1) * 10 + DigitValue(t[j].a)

\* A number at i: an optional sign, the integer part (one 0, or digits that
\* do not start with 0), and with a fraction or an exponent a float.  An
\* integer of more than 4300 digits is a ValueError.  The exponent is read
\* up to 99999999, beyond every float.
ParseNumber(t, i) ==
    LET d    == IF Is(t, i, "-") THEN i + 1 ELSE i
        e    == IF Is(t, d, "0") THEN d + 1 ELSE SkipDigits(t, d)
        f    == IF Is(t, e, ".") /\ SkipDigits(t, e + 1) > e + 1
                THEN SkipDigits(t, e + 1) ELSE e
        x    == IF IsIn(t, f, "eE") THEN (IF IsIn(t, f + 1, "+-") THEN f + 2 ELSE f + 1)
                ELSE f
        g    == IF x > f /\ SkipDigits(t, x) > x THEN SkipDigits(t, x) ELSE f
        nI   == e - d
        nF   == IF f > e THEN f - e - 1 ELSE 0
        ds   == [j \in 1 .. (nI + nF) |->
                    DigitValue(t[IF j <= nI THEN d + j - 1 ELSE e + (j - nI)].a)]
        z    == SkipIn(t, x, "0")
        ex   == IF g = f THEN 0
                ELSE IF z >= g THEN 0
                ELSE IF g - z > 8 THEN 99999999
                ELSE DigitsValue(t, z, g - 1)
        e10  == (IF g > f /\ Is(t, f + 1, "-") THEN 0 - ex ELSE ex) - nF
    IN  IF e = d THEN JsonFail
        ELSE IF g > e
        THEN [ok |-> TRUE, v |-> [float |-> floatstr(float(d > i, ds, e10))], i |-> g]
        ELSE IF nI > 4300 THEN JsonFail
        ELSE IF nI > 9 THEN [ok |-> TRUE, v |-> [bigint |-> TextOf(t, i, e - 1)], i |-> e]
        ELSE [ok |-> TRUE,
              v  |-> PyInt(IF d > i THEN 0 - DigitsValue(t, d, e - 1)
                           ELSE DigitsValue(t, d, e - 1)),
              i  |-> e]

\* True when the characters of a word stand at i.
StartsWith(t, i, word) ==
    \A k \in 1 .. Len(word) : Is(t, i + k - 1, SubSeq(word, k, k))

\* The scanner of json.loads runs in C and calls Py_EnterRecursiveCall for
\* every list and every dict it starts, so a document whose brackets nest too
\* deep ends in RecursionError.  The interpreter allows RecursionLimit frames
\* (sys.getrecursionlimit(), which the program never changes).  FramesAtLoads
\* of them are in use when the scanner starts at client.py 90: the 11 frames
\* from the module's asyncio.run(main()) down to test_endpoint (the module,
\* asyncio.run, Runner.run, run_until_complete, run_forever, _run_once,
\* Handle._run, main, test_endpoint, measured with CPython 3.11), plus
\* json.loads, JSONDecoder.decode and raw_decode.  A list or dict at level
\* NestingLimit or deeper is therefore refused (986 here; 996 for a call made
\* from the top of a script, whose only frame below json.loads is the module).
RecursionLimit == 1000

FramesAtLoads == 14

NestingLimit == RecursionLimit - FramesAtLoads

\* A value at i, the items of a list after "[" or a comma, the members of a
\* dict after "{" or a comma; white space may stand between the tokens.
\* level is the nesting level a list or dict starting at i has (1 for the
\* document itself); the scanner tests it before it looks for the closing
\* bracket, so an empty list too deep is refused as well.
RECURSIVE ParseValue(_, _, _), ParseItems(_, _, _, _), ParseMembers(_, _, _, _)
ParseValue(t, i, level) ==
    IF Is(t, i, "\"") THEN ParseString(t, i + 1, <<>>)
    ELSE IF IsIn(t, i, "{[") /\ level >= NestingLimit THEN JsonFail
    ELSE IF Is(t, i, "{")
    THEN (IF Is(t, SkipWs(t, i + 1), "}")
          THEN [ok |-> TRUE, v |-> PyDict(<<>>), i |-> SkipWs(t, i + 1) + 1]
          ELSE ParseMembers(t, SkipWs(t, i + 1), <<>>, level))
    ELSE IF Is(t, i, "[")
    THEN (IF Is(t, SkipWs(t, i + 1), "]")
          THEN [ok |-> TRUE, v |-> PyList(<<>>), i |-> SkipWs(t, i + 1) + 1]
          ELSE ParseItems(t, SkipWs(t, i + 1), <<>>, level))
    ELSE IF StartsWith(t, i, "null") THEN [ok |-> TRUE, v |-> [null |-> TRUE], i |-> i + 4]
    ELSE IF StartsWith(t, i, "true") THEN [ok |-> TRUE, v |-> [bool |-> TRUE], i |-> i + 4]
    ELSE IF StartsWith(t, i, "false") THEN [ok |-> TRUE, v |-> [bool |-> FALSE], i |-> i + 5]
    ELSE IF StartsWith(t, i, "NaN") THEN [ok |-> TRUE, v |-> [float |-> "NaN"], i |-> i + 3]
    ELSE IF StartsWith(t, i, "Infinity")
    THEN [ok |-> TRUE, v |-> [float |-> "Infinity"], i |-> i + 8]
    ELSE IF StartsWith(t, i, "-Infinity")
    THEN [ok |-> TRUE, v |-> [float |-> "-Infinity"], i |-> i + 9]
    ELSE ParseNumber(t, i)

ParseItems(t, i, values, level) ==
    LET item == ParseValue(t, i, level + 1)
        next == SkipWs(t, item.i)
    IN  IF ~item.ok THEN JsonFail
        ELSE IF Is(t, next, ",")
        THEN ParseItems(t, SkipWs(t, next + 1), Append(values, item.v), level)
        ELSE IF Is(t, next, "]")
        THEN [ok |-> TRUE, v |-> PyList(Append(values, item.v)), i |-> next + 1]
        ELSE JsonFail

ParseMembers(t, i, pairs, level) ==
    LET key   == IF Is(t, i, "\"") THEN ParseString(t, i + 1, <<>>) ELSE JsonFail
        colon == SkipWs(t, key.i)
        value == ParseValue(t, SkipWs(t, colon + 1), level + 1)
        next  == SkipWs(t, value.i)
    IN  IF ~key.ok \/ ~Is(t, colon, ":") \/ ~value.ok THEN JsonFail
        ELSE IF Is(t, next, ",")
        THEN ParseMembers(t, SkipWs(t, next + 1),
                          DictSet(pairs, key.v.str, value.v), level)
        ELSE IF Is(t, next, "}")
        THEN [ok |-> TRUE, v |-> PyDict(DictSet(pairs, key.v.str, value.v)), i |-> next + 1]
        ELSE JsonFail

\* How deep the brackets of a text nest, read without building a value.  A
\* character moves the reader between three places: "out" of a string, "in"
\* one, and behind a backslash ("esc") in one; out of a string "[" and "{"
\* open a level and "]" and "}" close one.  NestScan gives, for the
\* characters i .. j and each place the reader may be in at i, the place it
\* is in behind j, the levels opened less those closed (net) and the most
\* that were open at once (top).
NestChar(c, place) ==
    IF place = "esc" THEN [place |-> "in", net |-> 0, top |-> 0]
    ELSE IF place = "in"
    THEN [place |-> IF c = [a |-> "\\"] THEN "esc"
                    ELSE IF c = [a |-> "\""] THEN "out" ELSE "in",
          net |-> 0, top |-> 0]
    ELSE IF c = [a |-> "\""] THEN [place |-> "in", net |-> 0, top |-> 0]
    ELSE IF c \in {[a |-> "["], [a |-> "{"]} THEN [place |-> "out", net |-> 1, top |-> 1]
    ELSE IF c \in {[a |-> "]"], [a |-> "}"]} THEN [place |-> "out", net |-> -1, top |-> 0]
    ELSE [place |-> "out", net |-> 0, top |-> 0]

RECURSIVE NestScan(_, _, _)
NestScan(t, i, j) ==
    IF i = j THEN [place \in {"out", "in", "esc"} |-> NestChar(t[i], place)]
    ELSE LET mid   == (i + j) \div 2
             left  == NestScan(t, i, mid)
             right == NestScan(t, mid + 1, j)
         IN  [place \in {"out", "in", "esc"} |->
                 LET l == left[place]
                     r == right[l.place]
                 IN  [place |-> r.place,
                      net   |-> l.net + r.net,
                      top   |-> IF l.net + r.top > l.top THEN l.net + r.top ELSE l.top]]

Nesting(t) == IF t = <<>> THEN 0 ELSE NestScan(t, 1, Len(t))["out"].top

\* json.loads(s) of a str: the value of the one document of the text, None
\* when the call raises: JSONDecodeError for a text that is no document,
\* RecursionError for a document nested too deep; the except of client.py 94
\* takes both alike.  A text whose brackets nest to NestingLimit is one or
\* the other (in a document every bracket out of a string is a list's or a
\* dict's, so the scanner reaches that level), and is settled by counting.
json_loads(s) ==
    LET t == Chars(s)
        r == ParseValue(t, SkipWs(t, 1), 1)
    IN  IF Nesting(t) >= NestingLimit THEN None
        ELSE IF r.ok /\ SkipWs(t, r.i) = Len(t) + 1 THEN Some(r.v)
        ELSE None

\* ------------------------------------------------------ HttpServerProtocol
\* The responder connection: one record per send_response call with the
\* transport calls it made (ok: the call returned, it did not raise), the
\* stream ids handle_request was called for, and the exception that left
\* quic_event_received.
ServerInit ==
    [ sent       |-> <<>>,
      dispatched |-> <<>>,
      logged     |-> <<>>,
      exc        |-> "none" ]

\* Where the transport raises during one send_response call.
FailPoints == {"none", "send_headers", "send_data", "transmit"}

\* get_homepage(): the page; three of its characters are outside ASCII.
get_homepage ==
    << [ascii |-> "<!DOCTYPE html>\n<html>\n<head>\n    <title>HTTP/3 Server</title>\n    <style>\n        body { font-family: Arial, sans-serif; max-width: 800px; margin: 50px auto; padding: 20px; background: #f5f5f5; }\n        h1 { color: #333; }\n        .info { background: white; padding: 20px; border-radius: 8px; box-shadow: 0 2px 4px rgba(0,0,0,0.1); margin: 20px 0; }\n        .protocol { color: #4CAF50; font-weight: bold; font-size: 1.2em; }\n        .endpoint { background: #fff; padding: 15px; margin: 10px 0; border-left: 4px solid #4CAF50; border-radius: 4px; }\n        .endpoint strong { color: #2196F3; }\n    </style>\n</head>\n<body>\n    <h1>"],
       [cp |-> 128640],
       [ascii |-> " HTTP/3 Server Running on Kali Linux</h1>\n    <div class=\"info\">\n        <p>Protocol: <span class=\"protocol\">HTTP/3 (QUIC)</span></p>\n        <p>Port: 4433</p>\n        <p>Status: "],
       [cp |-> 9989],
       [ascii |-> " Active and Ready</p>\n    </div>\n    <h2>"],
       [cp |-> 128225],
       [ascii |-> " Available Endpoints:</h2>\n    <div class=\"endpoint\">\n        <strong>GET /api/status</strong><br>\n        Returns server health status and timestamp\n    </div>\n    <div class=\"endpoint\">\n        <strong>GET /api/data</strong><br>\n        Returns sample JSON data\n    </div>\n</body>\n</html>"] >>

\* datetime.isoformat(): the fraction is written only when the microsecond
\* is not 0.
isoformat(now) ==
    Str(ZeroPad(now.year, 4) \o "-" \o ZeroPad(now.month, 2) \o "-" \o ZeroPad(now.day, 2)
        \o "T" \o ZeroPad(now.hour, 2) \o ":" \o ZeroPad(now.minute, 2)
        \o ":" \o ZeroPad(now.second, 2)
        \o (IF now.microsecond = 0 THEN "" ELSE "." \o ZeroPad(now.microsecond, 6)))

\* What datetime.now() gives: an instant on a full second, and one inside a
\* second.
Clocks ==
    { [year |-> 2026, month |-> 1, day |-> 1, hour |-> 0, minute |-> 0,
       second |-> 0, microsecond |-> 0],
      [year |-> 2026, month |-> 10, day |-> 31, hour |-> 23, minute |-> 59,
       second |-> 59, microsecond |-> 4321] }

\* The /api/data document.
ApiData ==
    LET Item(id, name, value) ==
            PyDict(<< <<Str("id"), PyInt(id)>>, <<Str("name"), PyStr(Str(name))>>,
                      <<Str("value"), PyInt(value)>> >>)
    IN  PyDict(<< <<Str("message"), PyStr(Str("Sample data from HTTP/3 server"))>>,
                  <<Str("items"),
                    PyList(<< Item(1, "Item 1", 100), Item(2, "Item 2", 200),
                              Item(3, "Item 3", 300) >>)>> >>)

\* Mutant: the flush after the two sends left out.
send_response_NoTransmit(sv, stream_id, status_code, body, content_type, fail) ==
    LET headers == << <<":status", str(status_code)>>,
                      <<"content-type", Str(content_type)>>,
                      <<"content-length", str(len(body))>>,
                      <<"server", Str("HTTP/3-Python-Server")>> >>
        h == [op |-> "send_headers", stream_id |-> stream_id, headers |-> headers,
              end_stream |-> FALSE, ok |-> fail # "send_headers"]
        d == [op |-> "send_data", stream_id |-> stream_id, data |-> encode(body),
              end_stream |-> TRUE, ok |-> fail # "send_data"]
        made == IF fail = "send_headers" THEN <<h>> ELSE <<h, d>>
    IN  [sv EXCEPT
            !.sent = Append(@, [stream_id |-> stream_id, status |-> status_code,
                                calls |-> made]),
            !.logged = IF fail \in {"send_headers", "send_data"}
                       THEN Append(@, "Error sending response") ELSE @]

\* Mutant: no except clause, an exception of the transport leaves
\* send_response and the handler.
send_response_Raises(sv, stream_id, status_code, body, content_type, fail) ==
    LET headers == << <<":status", str(status_code)>>,
                      <<"content-type", Str(content_type)>>,
                      <<"content-length", str(len(body))>>,
                      <<"server", Str("HTTP/3-Python-Server")>> >>
        h == [op |-> "send_headers", stream_id |-> stream_id, headers |-> headers,
              end_stream |-> FALSE, ok |-> fail # "send_headers"]
        d == [op |-> "send_data", stream_id |-> stream_id, data |-> encode(body),
              end_stream |-> TRUE, ok |-> fail # "send_data"]
        t == [op |-> "transmit", ok |-> fail # "transmit"]
        made == IF fail = "send_headers" THEN <<h>>
                ELSE IF fail = "send_data" THEN <<h, d>>
                ELSE <<h, d, t>>
    IN  [sv EXCEPT
            !.sent = Append(@, [stream_id |-> stream_id, status |-> status_code,
                                calls |-> made]),
            !.exc = IF fail = "none" THEN @ ELSE "Exception"]

\* send_response: the header list, then send_headers, send_data with
\* end_stream set and transmit; an exception of any of them ends the method,
\* is logged and goes no further.
send_response(sv, stream_id, status_code, body, content_type, fail) ==
    LET headers == << <<":status", str(status_code)>>,
                      <<"content-type", Str(content_type)>>,
                      <<"content-length", str(len(body))>>,
                      <<"server", Str("HTTP/3-Python-Server")>> >>
        h == [op |-> "send_headers", stream_id |-> stream_id, headers |-> headers,
              end_stream |-> FALSE, ok |-> fail # "send_headers"]
        d == [op |-> "send_data", stream_id |-> stream_id, data |-> encode(body),
              end_stream |-> TRUE, ok |-> fail # "send_data"]
        t == [op |-> "transmit", ok |-> fail # "transmit"]
        made == IF fail = "send_headers" THEN <<h>>
                ELSE IF fail = "send_data" THEN <<h, d>>
                ELSE <<h, d, t>>
    IN  [sv EXCEPT
            !.sent = Append(@, [stream_id |-> stream_id, status |-> status_code,
                                calls |-> made]),
            !.logged = IF fail = "none" THEN @ ELSE Append(@, "Error sending response")]

send_json_response(sv, stream_id, status_code, data, fail) ==
    send_response(sv, stream_id, status_code, json_dumps(data), "application/json", fail)

\* headers.get(key, default) on the request's header dict.
HeaderGet(headers, key, default) ==
    IF key \in DOMAIN headers THEN headers[key] ELSE default

\* Mutant: the path is matched without its trailing slash.
Route_TrailingSlash(sv, stream_id, path, fail, now) ==
    IF path = Str("/")
    THEN send_response(sv, stream_id, 200, get_homepage, "text/html", fail)
    ELSE IF path \in {Str("/api/status"), Str("/api/status/")}
    THEN send_json_response(sv, stream_id, 200,
             PyDict(<< <<Str("status"), PyStr(Str("healthy"))>>,
                       <<Str("protocol"), PyStr(Str("HTTP/3"))>>,
                       <<Str("timestamp"), PyStr(isoformat(now))>> >>), fail)
    ELSE IF path \in {Str("/api/data"), Str("/api/data/")}
    THEN send_json_response(sv, stream_id, 200, ApiData, fail)
    ELSE send_json_response(sv, stream_id, 404,
             PyDict(<< <<Str("error"), PyStr(Str("Not Found"))>>,
                       <<Str("path"), PyStr(path)>> >>), fail)

\* The if/elif chain of handle_request: the route of a decoded path.
Route(sv, stream_id, path, fail, now) ==
    IF path = Str("/")
    THEN send_response(sv, stream_id, 200, get_homepage, "text/html", fail)
    ELSE IF path = Str("/api/status")
    THEN send_json_response(sv, stream_id, 200,
             PyDict(<< <<Str("status"), PyStr(Str("healthy"))>>,
                       <<Str("protocol"), PyStr(Str("HTTP/3"))>>,
                       <<Str("timestamp"), PyStr(isoformat(now))>> >>), fail)
    ELSE IF path = Str("/api/data")
    THEN send_json_response(sv, stream_id, 200, ApiData, fail)
    ELSE send_json_response(sv, stream_id, 404,
             PyDict(<< <<Str("error"), PyStr(Str("Not Found"))>>,
                       <<Str("path"), PyStr(path)>> >>), fail)

\* Mutant: no except clause, a decoding error leaves handle_request.
handle_request_NoExcept(sv, event, fail, now) ==
    LET headers == dict(event.headers)
        path    == decode(HeaderGet(headers, ":path", Str("/")))
        method  == decode(HeaderGet(headers, ":method", Str("GET")))
        sv1     == [sv EXCEPT !.dispatched = Append(@, event.stream_id)]
    IN  IF path = None \/ method = None
        THEN [sv1 EXCEPT !.exc = "UnicodeDecodeError"]
        ELSE Route(sv1, event.stream_id, path[1], fail, now)

\* handle_request(event): the route of the :path header; an exception of the
\* routing is answered with status 500, and one of that answer is dropped.
handle_request(sv, event, fail, now) ==
    LET headers == dict(event.headers)
        path    == decode(HeaderGet(headers, ":path", Str("/")))
        method  == decode(HeaderGet(headers, ":method", Str("GET")))
        sv1     == [sv EXCEPT !.dispatched = Append(@, event.stream_id)]
    IN  IF path = None \/ method = None
        THEN send_json_response(
                 [sv1 EXCEPT !.logged = Append(@, "Error handling request")],
                 event.stream_id, 500,
                 PyDict(<< <<Str("error"), PyStr(Str("Internal Server Error"))>>,
                           <<Str("message"),
                             PyStr(UnicodeDecodeErrorStr(
                                 IF path = None
                                 THEN HeaderGet(headers, ":path", Str("/"))
                                 ELSE HeaderGet(headers, ":method", Str("GET"))))>> >>),
                 fail)
        ELSE Route(sv1, event.stream_id, path[1], fail, now)

\* The body of the responder's loop, for one event: DataReceived is passed over.
ServerOnHttpEvent(sv, ev, fail, now) ==
    IF ev.type = "HeadersReceived" THEN handle_request(sv, ev, fail, now) ELSE sv

RECURSIVE ServerRunBatch(_, _, _, _)
ServerRunBatch(sv, batch, fails, nows) ==
    IF batch = <<>> \/ sv.exc # "none"
    THEN sv
    ELSE ServerRunBatch(ServerOnHttpEvent(sv, Head(batch), Head(fails), Head(nows)),
                        Tail(batch), Tail(fails), Tail(nows))

\* The responder's quic_event_received: an exception of the loop is logged and
\* does not leave the method.
server_quic_event_received(sv, batch, fails, nows) ==
    LET r == ServerRunBatch([sv EXCEPT !.exc = "none"], batch, fails, nows)
    IN  IF r.exc # "none"
        THEN [r EXCEPT !.exc = "none", !.logged = Append(@, "Error handling event")]
        ELSE r

\* Request stream ids and header lists the responder is given.
RequestIds == {0, 4}

RequestPathBytes ==
    { Str("/"), Str("/api/status"), Str("/api/data"), Str("/unknown/path"),
      Str("/api/status/"), Str("/a\"b\\c"), <<[ascii |-> "/caf"], [utf8 |-> 233]>>,
      <<[ascii |-> "/"], [raw |-> 255]>>, <<[ascii |-> "/ab"], [raw |-> 195]>> }

RequestHeaderLists ==
    { << <<":method", Str("GET")>>, <<":path", p>> >> : p \in RequestPathBytes }
    \cup { << <<":method", Str("GET")>> >> }

ServerEvents ==
    {HeadersReceived(s, h, e) : s \in RequestIds, h \in RequestHeaderLists, e \in BOOLEAN}
    \cup {DataReceived(s, Str("x"), e) : s \in RequestIds, e \in BOOLEAN}

ServerBatches(room) ==
    UNION {[1 .. n -> ServerEvents] : n \in 1 .. Min(MaxBatch, room)}

\* The transport's behaviour during each event of a batch.
FailChoices(batch) ==
    {f \in [DOMAIN batch -> FailPoints] :
        \A i \in DOMAIN batch : batch[i].type = "DataReceived" => f[i] = "none"}

\* True for a request whose handling reads the clock.
ReadsClock(ev) ==
    /\ ev.type = "HeadersReceived"
    /\ decode(HeaderGet(dict(ev.headers), ":path", Str("/"))) = Some(Str("/api/status"))
    /\ decode(HeaderGet(dict(ev.headers), ":method", Str("GET"))) # None

\* What datetime.now() gives during each event of a batch; one instant stands
\* for all where the clock is not read.
ClockChoices(batch) ==
    {c \in [DOMAIN batch -> Clocks] :
        \A i \in DOMAIN batch :
            ~ReadsClock(batch[i]) => c[i] = CHOOSE now \in Clocks : now.microsecond = 0}

\* --------------------------------------------------- two HttpClient objects
\* The dicts of the connections live on a heap, a sequence of tables; a
\* connection object holds the addresses of its two tables next to its
\* transport state.
ConnIds == {1, 2}

EmptyDict == <<>>

\* Mutant: the two tables are attributes of the class, made once and shared
\* by every instance.
HttpClient_init_ClassTables(h) ==
    [ heap |-> IF h = <<>> THEN <<EmptyDict, EmptyDict>> ELSE h,
      conn |-> [events_ref |-> 1, waiter_ref |-> 2,
                next_stream_id |-> 0, wire |-> <<>>, exc |-> "none"] ]

\* HttpClient.__init__: two new dicts, bound to the instance.
HttpClient_init(h) ==
    [ heap |-> h \o <<EmptyDict, EmptyDict>>,
      conn |-> [events_ref |-> Len(h) + 1, waiter_ref |-> Len(h) + 2,
                next_stream_id |-> 0, wire |-> <<>>, exc |-> "none"] ]

\* Two connections made one after the other.
Connect ==
    LET a == HttpClient_init(<<>>)
        b == HttpClient_init(a.heap)
    IN  [heap |-> b.heap, conns |-> <<a.conn, b.conn>>]

\* self as the methods see it: the fields of the object with the tables its
\* attributes refer to.
Load(h, conn) ==
    [ request_events |-> h[conn.events_ref],
      request_waiter |-> h[conn.waiter_ref],
      next_stream_id |-> conn.next_stream_id,
      wire           |-> conn.wire,
      exc            |-> conn.exc ]

\* The heap and the object after a method has run on self.
StoreHeap(h, conn, c) ==
    [h EXCEPT ![conn.events_ref] = c.request_events,
              ![conn.waiter_ref] = c.request_waiter]

StoreConn(conn, c) ==
    [conn EXCEPT !.next_stream_id = c.next_stream_id, !.wire = c.wire, !.exc = c.exc]

\* ------------------------------------------------------------- the state
VARIABLES
    client,       \* the HttpClient connection
    calls,        \* the get() coroutines: stream id -> awaiting, or what get() gave
    step,         \* the operation that ran last and the stream ids it was given
    delivered,    \* stream id -> the DataReceived fragments delivered for it
    last_headers, \* stream id -> the header list of its last HeadersReceived
    ended,        \* stream ids an event with stream_ended was processed for, on either side
    nevents,      \* events processed so far, on either side
    server,       \* the HttpServerProtocol connection
    requests,     \* the HeadersReceived events the responder was given, in order
    heap,         \* the tables of the two HttpClient objects
    conns         \* the two HttpClient objects

vars == <<client, calls, step, delivered, last_headers, ended, nevents, server,
          requests, heap, conns>>

Awaiting == [outcome |-> "awaiting"]
TimedOut == [outcome |-> "TimeoutError"]

Init ==
    /\ client = ClientInit
    /\ calls = <<>>
    /\ step = [op |-> "init"]
    /\ delivered = [s \in ClientIds \cup {PeerId} |-> <<>>]
    /\ last_headers = [s \in ClientIds \cup {PeerId} |-> None]
    /\ ended = {}
    /\ nevents = 0
    /\ server = ServerInit
    /\ requests = <<>>
    /\ heap = Connect.heap
    /\ conns = Connect.conns

\* Stream ids an event can carry: those get() has opened, and the peer's.
OpenIds == {s \in ClientIds : s < client.next_stream_id} \cup {PeerId}

RECURSIVE FragmentsOf(_, _)
FragmentsOf(batch, sid) ==
    IF batch = <<>> THEN <<>>
    ELSE (IF Head(batch).type = "DataReceived" /\ Head(batch).stream_id = sid
          THEN Head(batch).data ELSE <<>>) \o FragmentsOf(Tail(batch), sid)

\* The header list of the last HeadersReceived of a batch for a stream id.
HeadersOf(batch, sid, before) ==
    LET at == {i \in DOMAIN batch :
                  batch[i].type = "HeadersReceived" /\ batch[i].stream_id = sid}
    IN  IF at = {} THEN before ELSE Some(batch[Max(at)].headers)

\* The stream ids a batch carries, and those it carries an end of stream for
\* in an event of the given type.
StreamIdsOf(batch) == {batch[i].stream_id : i \in DOMAIN batch}
EndedIdsOf(batch, type) ==
    {batch[i].stream_id :
        i \in {j \in DOMAIN batch : batch[j].stream_ended /\ batch[j].type = type}}

Get(path) ==
    /\ client.next_stream_id < MaxRequests
    /\ client' = get(client, path)
    /\ calls' = SetItem(calls, client.next_stream_id, Awaiting)
    /\ step' = [op |-> "get", stream_id |-> client.next_stream_id]
    /\ UNCHANGED <<delivered, last_headers, ended, nevents, server, requests, heap, conns>>

Event(batch) ==
    /\ nevents + Len(batch) <= MaxEvents
    /\ client' = quic_event_received(client, batch)
    /\ step' = [op |-> "event", ids |-> StreamIdsOf(batch),
                eos_headers |-> EndedIdsOf(batch, "HeadersReceived"),
                eos_data |-> EndedIdsOf(batch, "DataReceived")]
    /\ delivered' = [s \in DOMAIN delivered |-> delivered[s] \o FragmentsOf(batch, s)]
    /\ last_headers' = [s \in DOMAIN last_headers |-> HeadersOf(batch, s, last_headers[s])]
    /\ ended' = ended \cup EndedIdsOf(batch, "HeadersReceived")
                      \cup EndedIdsOf(batch, "DataReceived")
    /\ nevents' = nevents + Len(batch)
    /\ UNCHANGED <<calls, server, requests, heap, conns>>

\* The awaiting get() resumes with the waiter's result.
GetReturn(s) ==
    /\ s \in DOMAIN calls /\ calls[s] = Awaiting
    /\ client.request_waiter[s].state = "FINISHED"
    /\ calls' = [calls EXCEPT ![s] = Response(client, s)]
    /\ step' = [op |-> "return", stream_id |-> s]
    /\ UNCHANGED <<client, delivered, last_headers, ended, nevents, server, requests, heap, conns>>

\* The 5 second budget of wait_for runs out before the waiter is done:
\* wait_for cancels the waiter and waits for the cancellation, get() is not
\* resumed yet.
Timeout(s) ==
    /\ s \in DOMAIN calls /\ calls[s] = Awaiting
    /\ ~done(client.request_waiter[s])
    /\ client' = cancel(client, s)
    /\ step' = [op |-> "timeout", stream_id |-> s]
    /\ UNCHANGED <<calls, delivered, last_headers, ended, nevents, server, requests, heap, conns>>

\* A later iteration of the event loop: wait_for finds the waiter cancelled
\* and raises TimeoutError into get().
GetRaise(s) ==
    /\ s \in DOMAIN calls /\ calls[s] = Awaiting
    /\ client.request_waiter[s].state = "CANCELLED"
    /\ calls' = [calls EXCEPT ![s] = TimedOut]
    /\ step' = [op |-> "raise", stream_id |-> s]
    /\ UNCHANGED <<client, delivered, last_headers, ended, nevents, server, requests, heap, conns>>

Next ==
    \/ \E path \in RequestPaths : Get(path)
    \/ \E batch \in Batches(OpenIds, MaxEvents - nevents) : Event(batch)
    \/ \E s \in ClientIds : GetReturn(s)
    \/ \E s \in ClientIds : Timeout(s)
    \/ \E s \in ClientIds : GetRaise(s)

\* The initiator connection.
Spec == Init /\ [][Next]_vars

\* The initiator connection under the event loop's scheduling: a due timeout
\* fires and a coroutine whose future is done is resumed.
FairSpec ==
    Spec /\ \A s \in ClientIds :
                WF_vars(GetReturn(s)) /\ WF_vars(Timeout(s)) /\ WF_vars(GetRaise(s))

ServerEvent(batch, fails, nows) ==
    /\ nevents + Len(batch) <= MaxServerEvents
    /\ server' = server_quic_event_received(server, batch, fails, nows)
    /\ step' = [op |-> "server_event", ids |-> StreamIdsOf(batch),
                headers_ids |-> {batch[i].stream_id :
                                    i \in {j \in DOMAIN batch :
                                              batch[j].type = "HeadersReceived"}}]
    /\ ended' = ended \cup EndedIdsOf(batch, "HeadersReceived")
                      \cup EndedIdsOf(batch, "DataReceived")
    /\ requests' = requests \o SelectSeq(batch, LAMBDA ev : ev.type = "HeadersReceived")
    /\ nevents' = nevents + Len(batch)
    /\ UNCHANGED <<client, calls, delivered, last_headers, heap, conns>>

ServerNext ==
    \E batch \in ServerBatches(MaxServerEvents - nevents) :
        \E fails \in FailChoices(batch), nows \in ClockChoices(batch) :
            ServerEvent(batch, fails, nows)

\* The responder connection.
ServerSpec == Init /\ [][ServerNext]_vars

\* Stream ids an event on connection k can carry.
PairOpenIds(k) == {s \in ClientIds : s < conns[k].next_stream_id} \cup {PeerId}

\* A method of connection k has run on its view c of the heap.
PairStore(k, c) ==
    /\ heap' = StoreHeap(heap, conns[k], c)
    /\ conns' = [conns EXCEPT ![k] = StoreConn(conns[k], c)]

PairGet(k, path) ==
    /\ conns[k].next_stream_id < MaxPairRequests
    /\ PairStore(k, get(Load(heap, conns[k]), path))
    /\ step' = [op |-> "pair_get", conn |-> k]
    /\ UNCHANGED <<client, calls, delivered, last_headers, ended, nevents, server,
                   requests>>

PairEvent(k, batch) ==
    /\ nevents + Len(batch) <= MaxPairEvents
    /\ PairStore(k, quic_event_received(Load(heap, conns[k]), batch))
    /\ step' = [op |-> "pair_event", conn |-> k]
    /\ nevents' = nevents + Len(batch)
    /\ UNCHANGED <<client, calls, delivered, last_headers, ended, server, requests>>

PairTimeout(k, s) ==
    /\ s \in DOMAIN Load(heap, conns[k]).request_waiter
    /\ ~done(Load(heap, conns[k]).request_waiter[s])
    /\ PairStore(k, cancel(Load(heap, conns[k]), s))
    /\ step' = [op |-> "pair_timeout", conn |-> k]
    /\ UNCHANGED <<client, calls, delivered, last_headers, ended, nevents, server,
                   requests>>

PairNext ==
    \E k \in ConnIds :
        \/ \E path \in RequestPaths : PairGet(k, path)
        \/ \E batch \in Batches(PairOpenIds(k), MaxPairEvents - nevents) : PairEvent(k, batch)
        \/ \E s \in ClientIds : PairTimeout(k, s)

\* Two initiator connections of one process, their methods interleaved.
PairSpec == Init /\ [][PairNext]_vars

\* ---------------------------------------------------------------- claims
Waiters == DOMAIN client.request_waiter

\* C1: whenever an event of either type that carries stream_ended is
\* processed for a stream whose waiter is pending, the waiter is resolved
\* within that step (a response of one HeadersReceived with stream_ended set
\* included).  Stated as the claim states it; the code resolves on
\* DataReceived alone.
C1_EndOfStreamResolves ==
    [][step'.op = "event" =>
         \A s \in Waiters :
             (~done(client.request_waiter[s])
                 /\ s \in step'.eos_headers \cup step'.eos_data)
             => client'.request_waiter[s].state = "FINISHED"]_vars

\* C2: a step that processes an end-of-stream event for a stream whose
\* waiter is already done (resolved, or cancelled by the timeout) is a no-op:
\* no exception leaves quic_event_received, the waiter keeps its state and
\* its result, and the outcome delivered through a resolved waiter stays
\* what it was.  Stated as the claim states it; the waiter's result is the
\* stream's entry itself, which the code goes on filling (C17).
C2_EndOfStreamAfterDoneIsNoOp ==
    [][step'.op = "event" =>
         /\ client'.exc = "none"
         /\ \A s \in (step'.eos_headers \cup step'.eos_data) \cap Waiters :
               done(client.request_waiter[s])
               => /\ client'.request_waiter[s] = client.request_waiter[s]
                  /\ client.request_waiter[s].state = "FINISHED"
                     => Response(client', s) = Response(client, s)]_vars

\* The stream ids handle_request ran for, counted per stream id.
Dispatches(s) == Cardinality({i \in DOMAIN server.dispatched : server.dispatched[i] = s})
Responses(s) == Cardinality({i \in DOMAIN server.sent : server.sent[i].stream_id = s})

\* C3: on the responder every request stream is dispatched, and answered,
\* at most once, whatever events arrive.  Stated as the claim states it; the
\* code dispatches on every HeadersReceived.
C3_DispatchedOnce ==
    \A s \in RequestIds : Dispatches(s) <= 1 /\ Responses(s) <= 1

\* C4: the waiter of stream S is resolved only by a step that processes an
\* end-of-stream event carrying S, its result is the entry of S, what get()
\* returns is the state accumulated for S, and events that carry other
\* stream ids change neither the waiter nor the entry of S.
C4_ResolvedByOwnStream ==
    [][/\ \A s \in Waiters :
             (client.request_waiter[s].state = "PENDING"
                 /\ client'.request_waiter[s].state = "FINISHED")
             => /\ step'.op = "event"
                /\ s \in step'.eos_data
                /\ client'.request_waiter[s].result = Some(s)
       /\ step'.op = "event" =>
             \A s \in DOMAIN client.request_events \ step'.ids :
                 /\ client'.request_events[s] = client.request_events[s]
                 /\ s \in Waiters => client'.request_waiter[s] = client.request_waiter[s]
       /\ step'.op = "return" =>
             /\ calls'[step'.stream_id].data = delivered[step'.stream_id]
             /\ calls'[step'.stream_id].headers =
                    (IF last_headers[step'.stream_id] = None THEN None
                     ELSE Some(dict(last_headers[step'.stream_id][1])))]_vars

\* C4 witness: two requests are open, a batch that carried only the one
\* stream's end resolved that one, and the other is still pending.
C4_Witness ==
    /\ step.op = "event"
    /\ \E s, t \in Waiters :
          /\ s # t
          /\ step.ids = {s}
          /\ s \in step.eos_data
          /\ client.request_waiter[s].state = "FINISHED"
          /\ client.request_waiter[t].state = "PENDING"

\* C5: after every step the body accumulated for a stream id is the
\* concatenation, in delivery order, of exactly the DataReceived fragments
\* that carried that stream id.
C5_BodyIsConcatenation ==
    \A s \in DOMAIN delivered :
        IF s \in DOMAIN client.request_events
        THEN client.request_events[s].data = delivered[s]
        ELSE delivered[s] = <<>>

\* C5 witness: fragments of two stream ids were delivered, two different
\* ones for one of them, and both bodies are held.
C5_Witness ==
    \E s, t \in DOMAIN client.request_events :
        /\ s # t
        /\ Len(client.request_events[s].data) >= 2
        /\ delivered[s][1] # delivered[s][2]
        /\ client.request_events[t].data # <<>>

\* C6: whenever get() returns a result, the result holds the response
\* headers (not None, with :status) and the whole body accumulated for the
\* stream, in every order of events.  Stated as the claim states it; the
\* code resolves on an end of stream without looking at the headers.
C6_ResultHasHeadersAndBody ==
    \A s \in DOMAIN calls :
        calls[s].outcome = "result"
        => /\ calls[s].headers # None
           /\ ":status" \in DOMAIN calls[s].headers[1]
           /\ (step.op = "return" /\ step.stream_id = s) => calls[s].data = delivered[s]

\* C7: every get() ends; it ends in a timeout only if no end of stream was
\* processed for its stream before the budget ran out, and otherwise in the
\* result; a timeout changes no other request's waiter and no stream entry.
\* Stated as the claim states it; the code lets a request whose stream ended
\* in a HeadersReceived run into the timeout.
C7_GetEndsAndTimeoutIsolated ==
    /\ \A s \in ClientIds :
          (s \in DOMAIN calls /\ calls[s] = Awaiting)
              ~> (s \in DOMAIN calls /\ calls[s] # Awaiting)
    /\ [](step.op = "timeout" => step.stream_id \notin ended)
    /\ [](step.op = "return" => step.stream_id \in ended)
    /\ [][step'.op \in {"timeout", "raise"} =>
             /\ client'.request_events = client.request_events
             /\ \A s \in Waiters \ {step'.stream_id} :
                    /\ client'.request_waiter[s] = client.request_waiter[s]
                    /\ calls'[s] = calls[s]]_vars

\* C8: the waiter table holds pending waiters only: a waiter leaves it when
\* it is resolved or times out.  Stated as the claim states it; the code
\* never removes a waiter.
C8_OnlyPendingWaiters ==
    \A s \in Waiters : client.request_waiter[s].state = "PENDING"

\* C9: the transport calls of every send_response are, in this order and on
\* the stream id of the request, send_headers without end_stream, send_data
\* with end_stream, transmit; a call is made only after the ones before it
\* returned, and transmit is called whenever send_data returned.
C9_SendOrder ==
    /\ Len(server.sent) = Len(server.dispatched)
    /\ \A i \in DOMAIN server.sent :
          LET r == server.sent[i]
              c == r.calls
          IN  /\ r.stream_id = server.dispatched[i]
              /\ Len(c) \in 1 .. 3
              /\ c[1].op = "send_headers" /\ c[1].stream_id = r.stream_id
              /\ c[1].end_stream = FALSE
              /\ Len(c) >= 2 =>
                    /\ c[1].ok
                    /\ c[2].op = "send_data" /\ c[2].stream_id = r.stream_id
                    /\ c[2].end_stream = TRUE
              /\ Len(c) = 3 => c[2].ok /\ c[3].op = "transmit"
              /\ (Len(c) >= 2 /\ c[2].ok) => Len(c) = 3

\* C9 witness: two responses went out whole, on different streams.
C9_Witness ==
    \E i, j \in DOMAIN server.sent :
        /\ server.sent[i].stream_id # server.sent[j].stream_id
        /\ \A k \in {i, j} :
              /\ Len(server.sent[k].calls) = 3
              /\ \A n \in 1 .. 3 : server.sent[k].calls[n].ok

\* A send_response call that put a whole response on the stream.
Complete(r) == Len(r.calls) = 3 /\ r.calls[1].ok /\ r.calls[2].ok

\* C10: every request stream whose headers were received gets a whole
\* response (headers, then a body that ends the stream), also when
\* send_headers or send_data raised in the first attempt.  Stated as the
\* claim states it; the code logs the failure and sends nothing more.
C10_AlwaysAnswered ==
    \A i \in DOMAIN server.dispatched :
        \E j \in DOMAIN server.sent :
            server.sent[j].stream_id = server.dispatched[i] /\ Complete(server.sent[j])

\* The document in the body given to send_data, read back as the initiator
\* reads it: decoded, then json.loads.
BodyOf(r) ==
    IF decode(r.calls[2].data) = None THEN None
    ELSE json_loads(decode(r.calls[2].data)[1])

\* The members of a document that is a dict.
HasField(doc, name) ==
    DOMAIN doc = {"dict"} /\ \E k \in DOMAIN doc.dict : doc.dict[k][1] = Str(name)
Field(doc, name) ==
    doc.dict[CHOOSE k \in DOMAIN doc.dict : doc.dict[k][1] = Str(name)][2]

\* A request whose handling raises: a :path or :method that is not UTF-8.
Raises(req) ==
    \/ decode(HeaderGet(dict(req.headers), ":path", Str("/"))) = None
    \/ decode(HeaderGet(dict(req.headers), ":method", Str("GET"))) = None

\* The value of a header in the list given to send_headers.
SentHeader(r, name) == dict(r.calls[1].headers)[name]

\* C11: a request whose handling raises is answered on its stream with
\* status 500 and a JSON body that has an error field (the whole response
\* whenever the transport takes it); the exception does not leave
\* handle_request, so every request of the batch is dispatched and nothing
\* reaches the except clause of quic_event_received; and requests that
\* arrive afterwards on other streams are dispatched and answered by their
\* route.
C11_HandlerErrorIs500 ==
    /\ Len(server.dispatched) = Len(requests)
    /\ Len(server.sent) = Len(requests)
    /\ \A k \in DOMAIN server.logged : server.logged[k] # "Error handling event"
    /\ \A i \in DOMAIN requests :
          Raises(requests[i])
          => LET r == server.sent[i]
             IN  /\ r.stream_id = requests[i].stream_id
                 /\ r.status = 500
                 /\ SentHeader(r, ":status") = Str("500")
                 /\ SentHeader(r, "content-type") = Str("application/json")
                 /\ r.calls[1].ok
                    => /\ Len(r.calls) >= 2
                       /\ r.calls[2].stream_id = requests[i].stream_id
                       /\ BodyOf(r) # None
                       /\ HasField(BodyOf(r)[1], "error")
                 /\ \A j \in DOMAIN requests :
                       (j > i /\ requests[j].stream_id # requests[i].stream_id
                           /\ ~Raises(requests[j]))
                       => /\ server.dispatched[j] = requests[j].stream_id
                          /\ server.sent[j].stream_id = requests[j].stream_id
                          /\ server.sent[j].status \in {200, 404}

\* C11 witness: a request with an undecodable path got the whole 500
\* response, and a later request on another stream its whole 200 response.
C11_Witness ==
    /\ Len(requests) = 2
    /\ Raises(requests[1]) /\ ~Raises(requests[2])
    /\ requests[1].stream_id # requests[2].stream_id
    /\ server.sent[1].status = 500 /\ Complete(server.sent[1])
    /\ server.sent[1].calls[3].ok
    /\ server.sent[2].status = 200 /\ Complete(server.sent[2])

\* A send_response call during which the transport raised.
Failed(r) == \E n \in DOMAIN r.calls : ~r.calls[n].ok

\* C12: an exception of send_headers, send_data or transmit leaves neither
\* send_response nor quic_event_received: no exception is pending after a
\* step and none reached the except clause of quic_event_received; every
\* request of a batch and of later events is dispatched, also after a
\* failed send, and its response is sent call by call up to a failure of
\* its own.
C12_SendFailureContained ==
    /\ server.exc = "none"
    /\ \A k \in DOMAIN server.logged : server.logged[k] # "Error handling event"
    /\ Len(server.dispatched) = Len(requests) /\ Len(server.sent) = Len(requests)
    /\ \A i \in DOMAIN requests :
          Failed(server.sent[i])
          => \A j \in DOMAIN requests :
                j > i
                => /\ server.dispatched[j] = requests[j].stream_id
                   /\ server.sent[j].stream_id = requests[j].stream_id
                   /\ server.sent[j].calls[1].op = "send_headers"
                   /\ Complete(server.sent[j]) \/ Failed(server.sent[j])

\* C12 witness: one batch carried requests on two streams; the send for the
\* first failed and the second got its whole response.
C12_Witness ==
    /\ step.op = "server_event"
    /\ Len(requests) = 2 /\ nevents = 2
    /\ step.headers_ids = {requests[1].stream_id, requests[2].stream_id}
    /\ requests[1].stream_id # requests[2].stream_id
    /\ Failed(server.sent[1])
    /\ Complete(server.sent[2]) /\ ~Failed(server.sent[2])

\* C13: a request whose headers lack :path is answered with a 4xx status on
\* its stream, never with a 2xx one.  Stated as the claim states it; the
\* code reads a missing :path as "/" and sends the home page with 200.
C13_MissingPathIs4xx ==
    \A i \in DOMAIN requests :
        ":path" \notin DOMAIN dict(requests[i].headers)
        => /\ i \in DOMAIN server.sent
           /\ server.sent[i].stream_id = requests[i].stream_id
           /\ server.sent[i].status \in 400 .. 499

\* C14: for every response, on every route, the content-length header is
\* the number of bytes given to send_data.  Stated as the claim states it;
\* the code writes len(body), the characters of the str, and the home page
\* holds characters of more than one byte.
C14_ContentLengthIsByteLength ==
    \A i \in DOMAIN server.sent :
        LET r == server.sent[i]
        IN  Len(r.calls) >= 2
            => SentHeader(r, "content-length") = str(ByteLen(r.calls[2].data))

\* The paths of the route table.
RouteTable == {Str("/"), Str("/api/status"), Str("/api/data")}

\* The path a request asks for, as a str.
PathOf(req) == decode(HeaderGet(dict(req.headers), ":path", Str("/")))[1]

\* The bytes of the :path header of a request.
PathBytes(req) == HeaderGet(dict(req.headers), ":path", Str("/"))

\* C15 as the claim states it: a request for /api/status is answered with
\* status 200, content-type application/json and a body whose status field
\* is "healthy", and every request whose :path is none of the table's is
\* answered with status 404 and a JSON body whose path field is the
\* requested path.  A :path that is not UTF-8 is none of the table's and is
\* answered with status 500.
C15_EveryUnmatchedPathIs404 ==
    \A i \in DOMAIN requests :
        LET r   == server.sent[i]
            raw == PathBytes(requests[i])
        IN  /\ r.stream_id = requests[i].stream_id
            /\ raw = encode(Str("/api/status"))
               => /\ r.status = 200 /\ SentHeader(r, ":status") = Str("200")
                  /\ SentHeader(r, "content-type") = Str("application/json")
                  /\ Len(r.calls) >= 2
                     => /\ BodyOf(r) # None
                        /\ HasField(BodyOf(r)[1], "status")
                        /\ Field(BodyOf(r)[1], "status") = PyStr(Str("healthy"))
            /\ raw \notin {encode(p) : p \in RouteTable}
               => /\ r.status = 404 /\ SentHeader(r, ":status") = Str("404")
                  /\ SentHeader(r, "content-type") = Str("application/json")
                  /\ Len(r.calls) >= 2
                     => /\ BodyOf(r) # None
                        /\ HasField(BodyOf(r)[1], "path")
                        /\ decode(raw) # None
                        /\ Field(BodyOf(r)[1], "path") = PyStr(decode(raw)[1])

\* C15, corrected: routing is by exact match of the decoded :path.  For a
\* request whose :path and :method are UTF-8: /api/status is answered with
\* status 200, content-type application/json and a body whose status field
\* is "healthy"; a path that is none of the table's (one that differs from a
\* route by a trailing slash included) is answered with status 404 and a
\* JSON body whose path field is the requested path.  A request whose :path
\* is not UTF-8 matches no route either and is answered with status 500.
C15_ExactMatchRouting ==
    \A i \in DOMAIN requests :
        /\ decode(PathBytes(requests[i])) = None
           => /\ PathBytes(requests[i]) \notin {encode(p) : p \in RouteTable}
              /\ server.sent[i].stream_id = requests[i].stream_id
              /\ server.sent[i].status = 500
              /\ SentHeader(server.sent[i], ":status") = Str("500")
        /\ ~Raises(requests[i])
           => LET r == server.sent[i]
                  path == PathOf(requests[i])
              IN  /\ r.stream_id = requests[i].stream_id
                  /\ path = Str("/api/status")
                     => /\ r.status = 200 /\ SentHeader(r, ":status") = Str("200")
                        /\ SentHeader(r, "content-type") = Str("application/json")
                        /\ Len(r.calls) >= 2
                           => /\ BodyOf(r) # None
                              /\ HasField(BodyOf(r)[1], "status")
                              /\ Field(BodyOf(r)[1], "status") = PyStr(Str("healthy"))
                  /\ path \notin RouteTable
                     => /\ r.status = 404 /\ SentHeader(r, ":status") = Str("404")
                        /\ SentHeader(r, "content-type") = Str("application/json")
                        /\ Len(r.calls) >= 2
                           => /\ BodyOf(r) # None
                              /\ HasField(BodyOf(r)[1], "path")
                              /\ Field(BodyOf(r)[1], "path") = PyStr(path)
                  /\ path \in RouteTable => r.status = 200

\* C15 witness: in one batch a request for /api/status/ got the whole 404
\* response with its path and a request for /api/status the whole 200
\* response; or a request whose :path is not UTF-8 got the whole 500
\* response and a request for /unknown/path the whole 404 response.
C15_Witness ==
    /\ Len(requests) = 2
    /\ Complete(server.sent[1]) /\ Complete(server.sent[2])
    /\ \/ /\ ~Raises(requests[1]) /\ ~Raises(requests[2])
          /\ PathOf(requests[1]) = Str("/api/status/")
          /\ PathOf(requests[2]) = Str("/api/status")
          /\ server.sent[1].status = 404
          /\ Field(BodyOf(server.sent[1])[1], "path") = PyStr(Str("/api/status/"))
          /\ server.sent[2].status = 200
          /\ Field(BodyOf(server.sent[2])[1], "status") = PyStr(Str("healthy"))
       \/ /\ decode(PathBytes(requests[1])) = None /\ ~Raises(requests[2])
          /\ PathOf(requests[2]) = Str("/unknown/path")
          /\ server.sent[1].status = 500
          /\ server.sent[2].status = 404
          /\ Field(BodyOf(server.sent[2])[1], "path") = PyStr(Str("/unknown/path"))

\* C16: the responder dispatches a request only once its stream is
\* complete: after every step, each stream id a handler ran for or a
\* response was sent on has had an event with stream_ended set.  Stated as
\* the claim states it; the code dispatches at the HeadersReceived event
\* whatever its stream_ended says.
C16_DispatchOnlyWhenEnded ==
    /\ \A i \in DOMAIN server.dispatched : server.dispatched[i] \in ended
    /\ \A i \in DOMAIN server.sent : server.sent[i].stream_id \in ended

\* C17: once a stream has ended on the initiator, a step that processes
\* further events changes neither the headers and body stored for it nor
\* the result its get() has returned.  Stated as the claim states it; the
\* code merges every event into the entry, and the result is that entry.
C17_EndedStreamIgnoresEvents ==
    [][step'.op = "event" =>
         \A s \in ended \cap DOMAIN client.request_events :
             /\ client'.request_events[s] = client.request_events[s]
             /\ (s \in DOMAIN calls /\ calls[s].outcome = "result")
                => Response(client', s) = calls[s]]_vars

\* C18: a step that processes events for a stream id without an entry does
\* not fail and leaves an entry that is the fresh one (headers none, body
\* empty) with the step's events merged in; an end of stream in a
\* DataReceived for a stream id without a waiter raises nothing, registers
\* no waiter and resolves no waiter of another stream.
C18_UnknownStreamNeverFails ==
    [][step'.op = "event" =>
         /\ client'.exc = "none"
         /\ \A s \in step'.ids \ DOMAIN client.request_events :
                /\ s \in DOMAIN client'.request_events
                /\ client'.request_events[s].data = delivered'[s]
                /\ client'.request_events[s].headers =
                       (IF last_headers'[s] = None THEN None
                        ELSE Some(dict(last_headers'[s][1])))
         /\ \A s \in step'.eos_data \ Waiters :
                /\ s \notin DOMAIN client'.request_waiter
                /\ \A t \in Waiters \ step'.eos_data :
                       client'.request_waiter[t] = client.request_waiter[t]]_vars

\* C18 witness: the first event of all was a DataReceived with stream_ended
\* for the peer's stream id, which has no waiter; its fragment is held in a
\* new entry without headers, and the pending waiter of a request is as it was.
C18_Witness ==
    /\ step.op = "event" /\ nevents = 1
    /\ step.ids = {PeerId} /\ step.eos_data = {PeerId}
    /\ PeerId \notin Waiters
    /\ client.request_events[PeerId] = [headers |-> None, data |-> delivered[PeerId]]
    /\ delivered[PeerId] # <<>>
    /\ \E t \in Waiters : client.request_waiter[t].state = "PENDING"

\* C19: a request sent, an event processed or a timeout on one connection
\* changes nothing of the other connection: its stream table, its waiter
\* table and its transport state are after the step what they were before,
\* also when both connections use the same stream ids.
C19_ConnectionsIsolated ==
    [][step'.op \in {"pair_get", "pair_event", "pair_timeout"} =>
         \A j \in ConnIds \ {step'.conn} :
             Load(heap', conns'[j]) = Load(heap, conns[j])]_vars

\* C19 witness: both connections hold an entry and a waiter for stream id 0;
\* an event of the one resolved its waiter and filled its entry, and the
\* other's waiter is pending and its entry empty.
C19_Witness ==
    /\ step.op = "pair_event"
    /\ \E k, j \in ConnIds :
          /\ k = step.conn /\ j # k
          /\ 0 \in DOMAIN Load(heap, conns[k]).request_waiter
          /\ 0 \in DOMAIN Load(heap, conns[j]).request_waiter
          /\ Load(heap, conns[k]).request_waiter[0].state = "FINISHED"
          /\ Load(heap, conns[k]).request_events[0].data # <<>>
          /\ Load(heap, conns[j]).request_waiter[0].state = "PENDING"
          /\ Load(heap, conns[j]).request_events[0] = NewEntry

\* C20: get() registers the waiter and the empty entry of its stream before
\* it first yields: every event processed for a stream a get() has opened
\* finds the waiter of that stream registered, and an end of stream in a
\* DataReceived leaves that waiter done (no lost wakeup); get() makes the
\* entry and the waiter of a stream id that had neither, so it overwrites
\* nothing accumulated, and leaves the entries and waiters of the other
\* requests as they were.
C20_RegisteredBeforeYield ==
    [][/\ step'.op = "event" =>
             \A s \in step'.ids \cap ClientIds :
                 /\ s \in Waiters /\ s \in DOMAIN client.request_events
                 /\ s \in step'.eos_data => done(client'.request_waiter[s])
       /\ step'.op = "get" =>
             LET s == step'.stream_id
             IN  /\ s \notin DOMAIN client.request_events /\ s \notin Waiters
                 /\ s \in DOMAIN client'.request_events
                 /\ s \in DOMAIN client'.request_waiter
                 /\ client'.request_events[s] = NewEntry
                 /\ client'.request_waiter[s] = create_future
                 /\ \A t \in DOMAIN client.request_events :
                        client'.request_events[t] = client.request_events[t]
                 /\ \A t \in Waiters :
                        client'.request_waiter[t] = client.request_waiter[t]]_vars

\* C20 witness: two get() calls overlap, both still awaiting; the response
\* of the second arrived first and resolved its waiter, the first's waiter
\* is pending.
C20_Witness ==
    /\ step.op = "event" /\ step.eos_data = {1}
    /\ {0, 1} \subseteq DOMAIN calls
    /\ calls[0] = Awaiting /\ calls[1] = Awaiting
    /\ client.request_waiter[1].state = "FINISHED"
    /\ client.request_events[1].data # <<>>
    /\ client.request_waiter[0].state = "PENDING"

====
